---------------------------- MODULE Spec2Model ----------------------------
(***************************************************************************)
(* A model of the job scrapers of src/linkedin_scraper.py and              *)
(* src/indeed_scraper.py: the SkillTrie (insert / search_in_text /         *)
(* _is_word_boundary), the JobMatcher functions and the batch loop of      *)
(* scrape().  Python strings are TLA+ strings; Python's 0-based index k is *)
(* the 1-based index k + 1 here.                                           *)
(***************************************************************************)
EXTENDS Integers, Sequences, FiniteSets, TLC

VARIABLES
    \* SkillTrie under construction and one search_in_text call (SpecTrie)
    trie_pc,        \* "build" while skills are inserted, "searched" after a search
    vocab,          \* the skills inserted so far (the set iterated by the build loop)
    root,           \* the trie: node path |-> TrieNode
    text,           \* argument of the last search_in_text call
    found,          \* its return value (found_skills)
    \* one call of each JobMatcher function (SpecMatcher)
    called,             \* the function called, {} before the call
    skills,             \* argument `skills` of calculate_match_score
    description,        \* the text argument of the three functions
    match_score,        \* calculate_match_score's result once called
    visa_sponsorship,   \* detect_visa_sponsorship's result once called
    work_mode,          \* the work mode branch's result once it ran
    \* one scraper instance and its scrape() calls (Spec)
    site,           \* "linkedin": LinkedInScraper, "indeed": IndeedScraper
    pc,             \* where scrape() stands; "idle" before the first call
    calls,          \* number of scrape() calls begun
    concurrency,    \* argument `concurrency` of the running call
    seen_job_ids,   \* self.seen_job_ids
    jobs,           \* self.jobs, the list scrape() returns
    job_list,       \* job_list of the running call
    awaiting_date,  \* the _extract_job_card call suspended at its awaits on the
                    \* card's date element: <<[card, job_id, ...]>>, else <<>>
    extracted,      \* job_data of the card loop, what _extract_job_card hands back:
                    \* <<stub>>, or <<>> for None and outside the loop body
    card_idx,       \* idx of the last card handed to _extract_job_card
    i,              \* loop variable of the batch loop (0-based, as in the code)
    tasks,          \* per stub of job_list, where its _fetch_job_details stands:
                    \* "stub" (no coroutine yet), "created", "new_page" (awaiting
                    \* context.new_page()), "awaiting" (its page operations),
                    \* "return job_data" / "return None" (awaiting page.close() in
                    \* `finally`), or the settled task's result: "job_data",
                    \* "None", "Exception"
    clock,          \* cards extracted so far; the value of the next scraped_at
    jobs_before,    \* history: self.jobs when the running call began
    accumulated,    \* history: every record in the order it was appended to self.jobs
    completion,     \* history: the running batch's stubs in the order they settled
    fetch_log,      \* history: the job_id of every detail fetch begun, in order
    listing,        \* history: "pending" until the running call's listing page is
                    \* loaded and enumerated ("listed"); "failed" once loading,
                    \* enumerating or closing it raised
    seen_before     \* history: self.seen_job_ids when the running call began

trieVars == <<trie_pc, vocab, root, text, found>>
matcherVars == <<called, skills, description, match_score, visa_sponsorship, work_mode>>
scraperVars == <<site, pc, calls, concurrency, seen_job_ids, jobs, job_list,
                 awaiting_date, extracted, card_idx, i, tasks, clock, jobs_before, accumulated, completion,
                 fetch_log, listing, seen_before>>
vars == <<trieVars, matcherVars, scraperVars>>

(***************************************************************************)
(* Bounds of the model.                                                    *)
(***************************************************************************)
MaxTermLen == 2
MaxVocab == 2
MaxTextLen == 3
MaxSkills == 13
MaxSegments == 2
MaxCards == 3
MaxId == 2
MaxConcurrency == 3
MaxCalls == 2

(***************************************************************************)
(* Characters and strings (ASCII).                                         *)
(***************************************************************************)
None == "None"

UpperCase == "ABCDEFGHIJKLMNOPQRSTUVWXYZ"
LowerCase == "abcdefghijklmnopqrstuvwxyz"
Digits == "0123456789"

Ch(s, k) == SubSeq(s, k, k)

CharsOf(s) == {Ch(s, k) : k \in 1..Len(s)}

AlnumChars == CharsOf(UpperCase) \cup CharsOf(LowerCase) \cup CharsOf(Digits)

\* str.isalnum() of one character
isalnum(c) == c \in AlnumChars

LowerOf ==
    [c \in CharsOf(UpperCase) |->
        Ch(LowerCase, CHOOSE k \in 1..Len(UpperCase) : Ch(UpperCase, k) = c)]

\* str.lower() of one character
LowerChar(c) == IF c \in DOMAIN LowerOf THEN LowerOf[c] ELSE c

\* str.lower()
RECURSIVE lower(_)
lower(s) == IF s = "" THEN "" ELSE LowerChar(Ch(s, 1)) \o lower(Tail(s))

\* Python's `kw in s` for strings
Contains(s, kw) ==
    \E k \in 1..(Len(s) - Len(kw) + 1) : SubSeq(s, k, k + Len(kw) - 1) = kw

\* all strings over alphabet A of length at most n
RECURSIVE StringsUpTo(_, _)
StringsUpTo(A, n) ==
    IF n = 0 THEN {""}
    ELSE LET S == StringsUpTo(A, n - 1)
         IN  S \cup {s \o c : s \in S, c \in A}

(***************************************************************************)
(* TrieNode and SkillTrie.  A node is named by the characters on the path  *)
(* from the root to it: node.children[c] of node p is node p \o c, and     *)
(* `c in node.children` is p \o c \in DOMAIN trie.                         *)
(***************************************************************************)
TrieNode == [is_end_of_word |-> FALSE, skill |-> None]

SkillTrie == [p \in {""} |-> TrieNode]

insert(trie, skill) ==
    LET low == lower(skill)
        path == {SubSeq(low, 1, k) : k \in 0..Len(low)}
        \* the nodes on the path exist: those missing are created
        grown == trie @@ [p \in path |-> TrieNode]
    IN  (low :> [is_end_of_word |-> TRUE, skill |-> skill]) @@ grown

is_word_boundary_nostart(t, start, end) ==
    ~ (end < Len(t) /\ isalnum(Ch(t, end + 1)))

is_word_boundary(t, start, end) ==
    IF start > 1 /\ isalnum(Ch(t, start - 1)) THEN FALSE
    ELSE IF end < Len(t) /\ isalnum(Ch(t, end + 1)) THEN FALSE
    ELSE TRUE

RECURSIVE walk_first_terminal(_, _, _, _, _, _)
walk_first_terminal(trie, t, from, j, node, acc) ==
    IF acc = {} /\ j <= Len(t) /\ (node \o Ch(t, j)) \in DOMAIN trie
    THEN LET child == node \o Ch(t, j)
             acc2 == IF trie[child].is_end_of_word /\ is_word_boundary(t, from, j)
                     THEN acc \cup {trie[child].skill}
                     ELSE acc
         IN  walk_first_terminal(trie, t, from, j + 1, child, acc2)
    ELSE acc

\* the inner while loop of search_in_text, from offset from (the code's i) with
\* the walk at j
RECURSIVE walk(_, _, _, _, _, _)
walk(trie, t, from, j, node, acc) ==
    IF j <= Len(t) /\ (node \o Ch(t, j)) \in DOMAIN trie
    THEN LET child == node \o Ch(t, j)
             acc2 == IF trie[child].is_end_of_word /\ is_word_boundary(t, from, j)
                     THEN acc \cup {trie[child].skill}
                     ELSE acc
         IN  walk(trie, t, from, j + 1, child, acc2)
    ELSE acc

search_in_text(trie, txt) ==
    LET t == lower(txt)
    IN  UNION {walk(trie, t, from, from, "", {}) : from \in 1..Len(t)}

(***************************************************************************)
(* SpecTrie: a trie is built from a vocabulary, then searched.             *)
(***************************************************************************)
TrieAlphabet == {"a", "A", " "}
Terms == StringsUpTo(TrieAlphabet, MaxTermLen)
Texts == StringsUpTo(TrieAlphabet, MaxTextLen)

TrieIdle ==
    /\ trie_pc = "build"
    /\ vocab = {}
    /\ root = SkillTrie
    /\ text = None
    /\ found = {}

MatcherIdle ==
    /\ called = {}
    /\ skills = <<>>
    /\ description = ""
    /\ match_score = <<0, 0, 0>>
    /\ visa_sponsorship = None
    /\ work_mode = None

ScraperIdle ==
    /\ site = "linkedin"
    /\ pc = "idle"
    /\ calls = 0
    /\ concurrency = 0
    /\ seen_job_ids = {}
    /\ jobs = <<>>
    /\ job_list = <<>>
    /\ awaiting_date = <<>>
    /\ extracted = <<>>
    /\ card_idx = 0
    /\ i = 0
    /\ tasks = <<>>
    /\ clock = 0
    /\ jobs_before = <<>>
    /\ accumulated = <<>>
    /\ completion = <<>>
    /\ fetch_log = <<>>
    /\ listing = "pending"
    /\ seen_before = {}

InitTrie == TrieIdle /\ MatcherIdle /\ ScraperIdle

Insert(skill) ==
    /\ trie_pc = "build"
    /\ skill \notin vocab
    /\ Cardinality(vocab) < MaxVocab
    /\ vocab' = vocab \cup {skill}
    /\ root' = insert(root, skill)
    /\ UNCHANGED <<trie_pc, text, found, matcherVars, scraperVars>>

SearchInText(t) ==
    /\ trie_pc = "build"
    /\ trie_pc' = "searched"
    /\ text' = t
    /\ found' = search_in_text(root, t)
    /\ UNCHANGED <<vocab, root, matcherVars, scraperVars>>

NextTrie ==
    \/ \E skill \in Terms : Insert(skill)
    \/ \E t \in Texts : SearchInText(t)

SpecTrie == InitTrie /\ [][NextTrie]_vars

(***************************************************************************)
(* C1 (as amended): for a vocabulary of non-empty terms with pairwise      *)
(* distinct lower-cased forms, search_in_text returns exactly the terms    *)
(* whose lower-cased form occurs in the lower-cased text with no           *)
(* alphanumeric character immediately before or after the occurrence.      *)
(***************************************************************************)
OccursAtBoundary(term, t) ==
    \E s \in 1..(Len(t) - Len(term) + 1) :
        /\ SubSeq(t, s, s + Len(term) - 1) = term
        /\ (s > 1 => ~ isalnum(Ch(t, s - 1)))
        /\ (s + Len(term) - 1 < Len(t) => ~ isalnum(Ch(t, s + Len(term))))

BoundaryTerms(V, t) == {v \in V : OccursAtBoundary(lower(v), lower(t))}

Canonical(V) ==
    /\ "" \notin V
    /\ \A v, w \in V : lower(v) = lower(w) => v = w

C1_SearchExact ==
    (trie_pc = "searched" /\ Canonical(vocab)) => found = BoundaryTerms(vocab, text)

\* C1 as stated: the same for every vocabulary
C1_SearchExactAnyVocabulary ==
    trie_pc = "searched" => found = BoundaryTerms(vocab, text)

\* a term embedded in a longer alphanumeric token is rejected although the walk
\* reaches its terminal, and a term at a boundary is returned
C1_Witness ==
    /\ trie_pc = "searched"
    /\ vocab = {"a", "aa"}
    /\ text = "Aa "
    /\ found = {"aa"}

(***************************************************************************)
(* JobMatcher: the class-level vocabulary and trie, extract_skills,        *)
(* calculate_match_score, detect_visa_sponsorship and the work mode branch *)
(* of _fetch_job_details.                                                  *)
(***************************************************************************)
MY_SKILLS ==
    {"python", "java", "sql", "t-sql", "pl/sql", "plsql", "shell", "bash",
     "yaml", "c#", "c++", "javascript", "js", "aws", "s3", "glue", "lambda",
     "step functions", "redshift", "ecs", "fargate", "ses", "sns", "eventbridge",
     "secrets manager", "cloudwatch", "rds", "ec2", "etl", "elt", "spark",
     "pyspark", "airflow", "kafka", "ssis", "ssrs", "data pipeline",
     "data warehouse", "glue studio", "sql server", "postgresql", "postgres",
     "mysql", "oracle", "mongodb", "dynamodb", "nosql", "terraform", "docker",
     "kubernetes", "k8s", "ci/cd", "github actions", "git", "jenkins",
     "spring boot", "spring", "hibernate", "flask", "rest api", "restful",
     "pandas", "sqlalchemy", "fastapi", "power bi", "powerbi", "tableau",
     "looker", "quicksight", "json", "parquet", "avro", "csv", "xml"}

\* the characters of the vocabulary in code point order (what sorted() compares)
CodeOrder == " #+-/0123456789ABCDEFGHIJKLMNOPQRSTUVWXYZabcdefghijklmnopqrstuvwxyz"

ord(c) == CHOOSE k \in 1..Len(CodeOrder) : Ch(CodeOrder, k) = c

\* a < b for Python strings
RECURSIVE StrLess(_, _)
StrLess(a, b) ==
    IF b = "" THEN FALSE
    ELSE IF a = "" THEN TRUE
    ELSE IF Ch(a, 1) = Ch(b, 1) THEN StrLess(Tail(a), Tail(b))
    ELSE ord(Ch(a, 1)) < ord(Ch(b, 1))

\* sorted(S) for a set of strings: the element at 0-based position n is the one
\* with n smaller elements
sorted(S) ==
    LET ranked == {<<Cardinality({y \in S : StrLess(y, x)}), x>> : x \in S}
    IN  [n \in 1..Cardinality(S) |-> (CHOOSE r \in ranked : r[1] = n - 1)[2]]

\* `for skill in MY_SKILLS: skill_trie.insert(skill)` with the set iterated in
\* the given order: the trie the inserts leave, node by node. Every prefix of a
\* lowered skill is a node; a node that ends a skill carries the skill inserted
\* last with that lowered form (insert overwrites node.skill).
BuildTrie(order) ==
    LET lowered == {<<k, lower(order[k])>> : k \in 1..Len(order)}
        lows == {q[2] : q \in lowered}
        paths == UNION {{SubSeq(l, 1, k) : k \in 0..Len(l)} : l \in lows}
        last(p) == LET ks == {q[1] : q \in {r \in lowered : r[2] = p}}
                   IN  CHOOSE k \in ks : \A j \in ks : j <= k
    IN  [p \in paths |->
            IF p \in lows
            THEN [is_end_of_word |-> TRUE, skill |-> order[last(p)]]
            ELSE TrieNode] @@ SkillTrie

SortedSkills == sorted(MY_SKILLS)

skill_trie == BuildTrie(SortedSkills)

extract_skills(txt) == sorted(search_in_text(skill_trie, txt))

(***************************************************************************)
(* Python floats: IEEE 754 binary64, rounded to nearest, ties to even.     *)
(* A float x with 0 <= x < 4 that is a multiple of 2^-57 (0.0 and every    *)
(* double from 2^-5 up are) is the triple <<h, m, l>> of its digits in     *)
(* base 2^20:  x = (h * 2^40 + m * 2^20 + l) / 2^57.  Every float that     *)
(* calculate_match_score computes is of this kind.                         *)
(***************************************************************************)
Limb == 2^20

Min(a, b) == IF a <= b THEN a ELSE b

\* int.bit_length()
bit_length(n) ==
    CHOOSE b \in 0..30 : IF n = 0 THEN b = 0 ELSE b > 0 /\ 2^(b - 1) <= n /\ n < 2^b

\* the double nearest to (h * 2^40 + m * 2^20 + l + num / den) / 2^57, where
\* 0 <= num < den: the bits below the 53 significant ones are rounded away
RoundNearestEven(h, m, l, num, den) ==
    LET excess == bit_length(h) - 13
        p == IF excess > 0 THEN 2^excess ELSE 1
        low == l % p
        kept == l - low
        twice == 2 * (low * den + num)
        up == \/ twice > p * den
              \/ twice = p * den /\ (kept \div p) % 2 = 1
        l2 == IF up THEN kept + p ELSE kept
        m2 == IF l2 = Limb THEN m + 1 ELSE m
        h2 == IF m2 = Limb THEN h + 1 ELSE h
    IN  <<h2, m2 % Limb, l2 % Limb>>

\* n / d for ints n >= 0, d > 0 (true division)
float_div(n, d) ==
    LET top == n * 2^17
        r1 == top % d
        r2 == (r1 * Limb) % d
    IN  RoundNearestEven(top \div d, (r1 * Limb) \div d, (r2 * Limb) \div d,
                         (r2 * Limb) % d, d)

\* x + y
float_add(x, y) ==
    LET l == x[3] + y[3]
        m == x[2] + y[2] + l \div Limb
        h == x[1] + y[1] + m \div Limb
    IN  RoundNearestEven(h, m % Limb, l % Limb, 0, 1)

\* x < y
float_lt(x, y) ==
    \/ x[1] < y[1]
    \/ x[1] = y[1] /\ x[2] < y[2]
    \/ x[1] = y[1] /\ x[2] = y[2] /\ x[3] < y[3]

\* min(x, y)
float_min(x, y) == IF float_lt(y, x) THEN y ELSE x

\* the float literals 0.0, 0.6, 0.15, 0.10 and 1.0
Float_0_0 == float_div(0, 1)
Float_0_6 == float_div(6, 10)
Float_0_15 == float_div(15, 100)
Float_0_10 == float_div(10, 100)
Float_1_0 == float_div(1, 1)

cloud_keywords == {"aws", "cloud", "s3", "lambda", "glue", "redshift"}
senior_keywords == {"senior", "lead", "architect", "principal"}
de_keywords == {"data engineer", "etl", "pipeline", "warehouse", "spark"}

\* sum(1 for kw in keywords if kw in description_lower)
Matches(keywords, description_lower) ==
    Cardinality({kw \in keywords : Contains(description_lower, kw)})

calculate_match_score_uncapped_base(skill_list, desc) ==
    IF skill_list = <<>> THEN Float_0_0
    ELSE LET description_lower == lower(desc)
             skill_match_ratio == float_div(Len(skill_list), 20)
             base == float_add(Float_0_0, skill_match_ratio)
             cloud_matches == Matches(cloud_keywords, description_lower)
             cloud == float_add(base, float_min(float_div(cloud_matches,
                                    Cardinality(cloud_keywords)), Float_0_15))
             senior == IF \E kw \in senior_keywords : Contains(description_lower, kw)
                       THEN float_add(cloud, Float_0_10) ELSE cloud
             de_matches == Matches(de_keywords, description_lower)
             score == float_add(senior, float_min(float_div(de_matches,
                                    Cardinality(de_keywords)), Float_0_15))
         IN  float_min(score, Float_1_0)

calculate_match_score_bonus_cap_0_30(skill_list, desc) ==
    IF skill_list = <<>> THEN Float_0_0
    ELSE LET description_lower == lower(desc)
             skill_match_ratio == float_div(Len(skill_list), 20)
             base == float_add(Float_0_0, float_min(skill_match_ratio, Float_0_6))
             cloud_matches == Matches(cloud_keywords, description_lower)
             cloud == float_add(base, float_min(float_div(cloud_matches,
                                    Cardinality(cloud_keywords)), float_div(30, 100)))
             senior == IF \E kw \in senior_keywords : Contains(description_lower, kw)
                       THEN float_add(cloud, Float_0_10) ELSE cloud
             de_matches == Matches(de_keywords, description_lower)
             score == float_add(senior, float_min(float_div(de_matches,
                                    Cardinality(de_keywords)), float_div(30, 100)))
         IN  float_min(score, Float_1_0)

calculate_match_score_noguard(skill_list, desc) ==
    LET description_lower == lower(desc)
        skill_match_ratio == float_div(Len(skill_list), 20)
        base == float_add(Float_0_0, float_min(skill_match_ratio, Float_0_6))
        cloud_matches == Matches(cloud_keywords, description_lower)
        cloud == float_add(base, float_min(float_div(cloud_matches,
                               Cardinality(cloud_keywords)), Float_0_15))
        senior == IF \E kw \in senior_keywords : Contains(description_lower, kw)
                  THEN float_add(cloud, Float_0_10) ELSE cloud
        de_matches == Matches(de_keywords, description_lower)
        score == float_add(senior, float_min(float_div(de_matches,
                               Cardinality(de_keywords)), Float_0_15))
    IN  float_min(score, Float_1_0)

\* `score` after each `score +=`, under the names of what was added
calculate_match_score(skill_list, desc) ==
    IF skill_list = <<>> THEN Float_0_0
    ELSE LET description_lower == lower(desc)
             skill_match_ratio == float_div(Len(skill_list), 20)
             base == float_add(Float_0_0, float_min(skill_match_ratio, Float_0_6))
             cloud_matches == Matches(cloud_keywords, description_lower)
             cloud == float_add(base, float_min(float_div(cloud_matches,
                                    Cardinality(cloud_keywords)), Float_0_15))
             senior == IF \E kw \in senior_keywords : Contains(description_lower, kw)
                       THEN float_add(cloud, Float_0_10) ELSE cloud
             de_matches == Matches(de_keywords, description_lower)
             score == float_add(senior, float_min(float_div(de_matches,
                                    Cardinality(de_keywords)), Float_0_15))
         IN  float_min(score, Float_1_0)

\* the alternatives of the two compiled patterns
visa_positive_pattern ==
    {"visa sponsor", "h1b sponsor", "work authorization", "visa support",
     "sponsorship available", "will sponsor"}
visa_negative_pattern ==
    {"no sponsorship", "cannot sponsor", "no visa support", "us citizen",
     "citizenship required", "must be authorized"}

\* \w of the re module
WordChars == AlnumChars \cup {"_"}

\* \b at the gap before character k of s (k = Len(s) + 1: the end of s)
WordBreak(s, k) ==
    LET before == k > 1 /\ Ch(s, k - 1) \in WordChars
        after == k <= Len(s) /\ Ch(s, k) \in WordChars
    IN  before # after

\* re.compile(r'\b(p1|p2|...)\b', re.IGNORECASE).search(s) is not None
PatternSearch(alternatives, s) ==
    \E ph \in alternatives : \E k \in 1..(Len(s) - Len(ph) + 1) :
        /\ WordBreak(s, k)
        /\ lower(SubSeq(s, k, k + Len(ph) - 1)) = ph
        /\ WordBreak(s, k + Len(ph))

\* Optional[bool] as "True" / "False" / "None"
detect_visa_sponsorship_positive_first(txt) ==
    IF PatternSearch(visa_positive_pattern, txt) THEN "True"
    ELSE IF PatternSearch(visa_negative_pattern, txt) THEN "False"
    ELSE None

detect_visa_sponsorship(txt) ==
    IF PatternSearch(visa_negative_pattern, txt) THEN "False"
    ELSE IF PatternSearch(visa_positive_pattern, txt) THEN "True"
    ELSE None

detect_work_mode_hybrid_first(desc) ==
    LET desc_lower == lower(desc)
    IN  IF Contains(desc_lower, "hybrid") THEN "hybrid"
        ELSE IF Contains(desc_lower, "remote") \/ Contains(desc_lower, "work from home")
        THEN "remote"
        ELSE "onsite"

\* the `# Detect work mode` branch of _fetch_job_details
detect_work_mode(desc) ==
    LET desc_lower == lower(desc)
    IN  IF Contains(desc_lower, "remote") \/ Contains(desc_lower, "work from home")
        THEN "remote"
        ELSE IF Contains(desc_lower, "hybrid") THEN "hybrid"
        ELSE "onsite"

(***************************************************************************)
(* SpecMatcher: one JobMatcher function is called on a skill list and a    *)
(* text.  A text is a concatenation of at most MaxSegments segments.       *)
(***************************************************************************)
Segments ==
    {" ", "s", "AWS ", "s3", "Senior", "etl", "spark,",
     "No sponsorship. ", "US Citizen", "will sponsor", "Visa Support, ",
     "remote ", "Hybrid", "work from home"}

RECURSIVE Concatenations(_)
Concatenations(n) ==
    IF n = 0 THEN {""}
    ELSE LET S == Concatenations(n - 1)
         IN  S \cup {s \o g : s \in S, g \in Segments}

MatcherTexts == Concatenations(MaxSegments)

\* the skill lists: the first n vocabulary terms, n = 0..MaxSkills
SkillLists == {SubSeq(SortedSkills, 1, n) : n \in 0..MaxSkills}

InitMatcher ==
    /\ TrieIdle
    /\ ScraperIdle
    /\ called = {}
    /\ skills \in SkillLists
    /\ description \in MatcherTexts
    /\ match_score = Float_0_0
    /\ visa_sponsorship = None
    /\ work_mode = None

CalculateMatchScore ==
    /\ called = {}
    /\ called' = {"calculate_match_score"}
    /\ match_score' = calculate_match_score(skills, description)
    /\ UNCHANGED <<trieVars, scraperVars, skills, description, visa_sponsorship, work_mode>>

DetectVisaSponsorship ==
    /\ called = {}
    /\ called' = {"detect_visa_sponsorship"}
    /\ visa_sponsorship' = detect_visa_sponsorship(description)
    /\ UNCHANGED <<trieVars, scraperVars, skills, description, match_score, work_mode>>

DetectWorkMode ==
    /\ called = {}
    /\ called' = {"work_mode"}
    /\ work_mode' = detect_work_mode(description)
    /\ UNCHANGED <<trieVars, scraperVars, skills, description, match_score, visa_sponsorship>>

NextMatcher ==
    \/ CalculateMatchScore
    \/ DetectVisaSponsorship
    \/ DetectWorkMode

SpecMatcher == InitMatcher /\ [][NextMatcher]_vars

(***************************************************************************)
(* C9: detect_visa_sponsorship decides three ways: "False" whenever a      *)
(* disqualifying phrase is present, also when an affirmative phrase is     *)
(* present too; "True" exactly when no disqualifying and some affirmative  *)
(* phrase is present; None exactly when neither is.  A phrase is present   *)
(* when it occurs, in any letter case, as a whole phrase: no word          *)
(* character immediately before or after it.                               *)
(***************************************************************************)
PhrasePresent(phrases, txt) ==
    \E ph \in phrases : \E k \in 1..(Len(txt) - Len(ph) + 1) :
        /\ lower(SubSeq(txt, k, k + Len(ph) - 1)) = ph
        /\ (k > 1 => Ch(txt, k - 1) \notin WordChars)
        /\ (k + Len(ph) <= Len(txt) => Ch(txt, k + Len(ph)) \notin WordChars)

C9_VisaThreeWay ==
    called = {"detect_visa_sponsorship"} =>
        LET neg == PhrasePresent(visa_negative_pattern, description)
            pos == PhrasePresent(visa_positive_pattern, description)
        IN  /\ visa_sponsorship \in {"True", "False", None}
            /\ (neg => visa_sponsorship = "False")
            /\ (visa_sponsorship = "True" <=> (~ neg /\ pos))
            /\ (visa_sponsorship = None <=> (~ neg /\ ~ pos))

\* a text with a disqualifying and an affirmative phrase is decided "False"
C9_Witness ==
    /\ called = {"detect_visa_sponsorship"}
    /\ description = "No sponsorship. will sponsor"
    /\ PhrasePresent(visa_positive_pattern, description)
    /\ visa_sponsorship = "False"

(***************************************************************************)
(* C10: calculate_match_score returns 0.0 if and only if the skill list is *)
(* empty, whatever keywords the text contains.                             *)
(***************************************************************************)
C10_ZeroIffNoSkills ==
    called = {"calculate_match_score"} =>
        /\ match_score = Float_0_0 <=> skills = <<>>
        /\ skills # <<>> => float_lt(Float_0_0, match_score)

\* an empty skill list scored against a text with cloud and seniority keywords
C10_Witness ==
    /\ called = {"calculate_match_score"}
    /\ skills = <<>>
    /\ description = "AWS Senior"
    /\ match_score = Float_0_0

(***************************************************************************)
(* The scrapers.  _extract_job_card turns a listed card into a stub (a     *)
(* dict, here a record) or None (here the empty sequence; a stub is a      *)
(* one-element sequence).  Title, company, location and posted date are    *)
(* carried through untouched and are left out.                             *)
(***************************************************************************)
\* Python truthiness of an Optional[str]
Truthy(x) == x # None /\ x # ""

\* the longest run of characters of cs in s from position k on
RECURSIVE Run(_, _, _)
Run(s, k, cs) ==
    IF k <= Len(s) /\ Ch(s, k) \in cs THEN Ch(s, k) \o Run(s, k + 1, cs) ELSE ""

\* re.search(prefix + '([cs]+)', s): group 1 of the leftmost match, or None
SearchGroup(prefix, cs, s) ==
    LET starts == {k \in 1..(Len(s) - Len(prefix)) :
                      /\ SubSeq(s, k, k + Len(prefix) - 1) = prefix
                      /\ Ch(s, k + Len(prefix)) \in cs}
    IN  IF starts = {} THEN None
        ELSE LET k == CHOOSE a \in starts : \A b \in starts : a <= b
             IN  Run(s, k + Len(prefix), cs)

HexChars == CharsOf("abcdef") \cup CharsOf(Digits)

\* str.strip(): the characters c with c.isspace() among the ASCII characters,
\* the alphabet of the model's texts: space, \t, \n, \r, \f, and (written as
\* the characters themselves) \x0b, \x1c, \x1d, \x1e, \x1f
Whitespace == {" ", "\t", "\n", "\r", "\f", "", "", "", "", ""}
RECURSIVE lstrip(_)
lstrip(s) == IF s # "" /\ Ch(s, 1) \in Whitespace THEN lstrip(Tail(s)) ELSE s
RECURSIVE rstrip(_)
rstrip(s) ==
    IF s # "" /\ Ch(s, Len(s)) \in Whitespace THEN rstrip(SubSeq(s, 1, Len(s) - 1)) ELSE s
strip(s) == lstrip(rstrip(s))

\* LinkedInScraper._extract_job_card(card, idx) with self.seen_job_ids = seen,
\* up to its awaits on the card's date element: the job id the call goes on
\* with (None when it has returned None before) and the new self.seen_job_ids
LinkedInScraper_job_id(card, idx, seen) ==
    IF card.fault = "early" THEN [job_id |-> None, seen |-> seen]
    ELSE
    LET job_link == card.href
        digits == IF Truthy(job_link)
                  THEN SearchGroup("/jobs/view/", CharsOf(Digits), job_link)
                  ELSE None
        matched == digits # None
        from_link == "linkedin_" \o digits
    IN  IF matched /\ from_link \in seen THEN [job_id |-> None, seen |-> seen]
        ELSE IF matched THEN [job_id |-> from_link, seen |-> seen \cup {from_link}]
        ELSE [job_id |-> "linkedin_" \o ToString(idx), seen |-> seen]

\* from the date awaits to the return, at time now: <<stub>>, or <<>> for None
LinkedInScraper_stub(card, job_id, now) ==
    IF card.fault = "late" THEN <<>>
    ELSE << [job_id |-> job_id,
             source |-> "linkedin",
             application_link |-> card.href,
             scraped_at |-> now,
             status |-> "new"] >>

\* the whole call: the stub returned and the new self.seen_job_ids
LinkedInScraper_extract_job_card(card, idx, seen, now) ==
    LET gate == LinkedInScraper_job_id(card, idx, seen)
    IN  [job_data |-> IF gate.job_id = None THEN <<>>
                      ELSE LinkedInScraper_stub(card, gate.job_id, now),
         seen |-> gate.seen]

\* IndeedScraper._extract_job_card(card, idx), up to its awaits on the card's
\* date element: the job key the call goes on with (None when it has returned
\* None before) and the new self.seen_job_ids
IndeedScraper_job_key(card, idx, seen) ==
    IF card.fault = "early" THEN [job_key |-> None, seen |-> seen]
    ELSE
    LET from_href == IF Truthy(card.href)
                     THEN SearchGroup("jk=", HexChars, card.href)
                     ELSE None
        job_key == IF Truthy(card.data_jk) THEN card.data_jk ELSE from_href
        job_id == "indeed_" \o job_key
    IN  IF ~ Truthy(job_key) THEN [job_key |-> None, seen |-> seen]
        ELSE IF job_id \in seen THEN [job_key |-> None, seen |-> seen]
        ELSE [job_key |-> job_key, seen |-> seen \cup {job_id}]

\* from the date awaits to the return
IndeedScraper_stub(card, job_key, now) ==
    IF card.fault = "late" THEN <<>>
    ELSE << [job_id |-> "indeed_" \o job_key,
             job_key |-> job_key,
             source |-> "indeed",
             scraped_at |-> now,
             status |-> "new"] >>

\* the whole call
IndeedScraper_extract_job_card(card, idx, seen, now) ==
    LET gate == IndeedScraper_job_key(card, idx, seen)
    IN  [job_data |-> IF gate.job_key = None THEN <<>>
                      ELSE IndeedScraper_stub(card, gate.job_key, now),
         seen |-> gate.seen]

\* `if job_data and job_data.get('application_link')` / `.get('job_key')`
Enqueued(st, r) ==
    /\ r.job_data # <<>>
    /\ IF st = "linkedin" THEN Truthy(r.job_data[1].application_link)
                          ELSE Truthy(r.job_data[1].job_key)

\* job_list[i:i + concurrency], as the positions of job_list it holds
batch_unbounded(n, start, c) == (start + 1)..n

batch_overlapping(n, start, c) == (start + 1)..Min(start + c + 1, n)

batch_off_by_one(n, start, c) == (start + 1)..Min(start + c, n - 1)

batch(n, start, c) == (start + 1)..Min(start + c, n)

\* a set of positions as the ascending list
RECURSIVE Ascending(_)
Ascending(S) ==
    IF S = {} THEN <<>>
    ELSE LET least == CHOOSE a \in S : \A b \in S : a <= b
         IN  <<least>> \o Ascending(S \ {least})

\* asyncio.gather(*tasks, return_exceptions=True): the positions whose results it
\* returns, in the order it returns them; settled is the order the tasks settled in
gather_as_completed(b, settled) == settled

gather(b, settled) == Ascending(b)

\* job_data after the successful branch of _fetch_job_details on inner text d
fetched(job_data, d) ==
    LET job_description == strip(d)
        found_skills == extract_skills(job_description)
    IN  [job_description |-> job_description,
         skills |-> found_skills,
         match_score |-> calculate_match_score(found_skills, job_description),
         visa_sponsorship |-> detect_visa_sponsorship(job_description),
         work_mode |-> detect_work_mode(job_description)] @@ job_data

\* the `for result in results` loop: the positions, in the order of results,
\* whose result is a job_data dict (an Exception is printed, a None is skipped)
successful_until_exception(results, outcome) ==
    LET raised == {n \in 1..Len(results) : outcome[results[n]] = "Exception"}
        stop == IF raised = {} THEN Len(results)
                ELSE (CHOOSE a \in raised : \A b \in raised : a <= b) - 1
    IN  SelectSeq(SubSeq(results, 1, stop), LAMBDA k : outcome[k] = "job_data")

successful(results, outcome) ==
    SelectSeq(results, LAMBDA k : outcome[k] = "job_data")

\* key=lambda x: x.get('match_score', 0)
sort_key(x) == IF "match_score" \in DOMAIN x THEN x.match_score ELSE Float_0_0

\* list.sort(key=..., reverse=True): descending, equal keys keep their order
RECURSIVE sort_reverse_unstable(_)
sort_reverse_unstable(seq) ==
    IF seq = <<>> THEN <<>>
    ELSE LET x == seq[Len(seq)]
             done == sort_reverse_unstable(SubSeq(seq, 1, Len(seq) - 1))
             n == Cardinality({k \in 1..Len(done) : float_lt(sort_key(x), sort_key(done[k]))})
         IN  SubSeq(done, 1, n) \o <<x>> \o SubSeq(done, n + 1, Len(done))

RECURSIVE sort_reverse(_)
sort_reverse(seq) ==
    IF seq = <<>> THEN <<>>
    ELSE LET x == seq[Len(seq)]
             done == sort_reverse(SubSeq(seq, 1, Len(seq) - 1))
             n == Cardinality({k \in 1..Len(done) : ~ float_lt(sort_key(done[k]), sort_key(x))})
         IN  SubSeq(done, 1, n) \o <<x>> \o SubSeq(done, n + 1, Len(done))

(***************************************************************************)
(* Inputs of a run: the cards the listing page shows, the text of each     *)
(* description page, the concurrency argument.                             *)
(***************************************************************************)
Faults == {"none", "early", "late"}

Numbers == {Ch(Digits, n + 1) : n \in 1..MaxId}

LinkedInCards ==
    [href : {None, "/jobs/search"} \cup {"/jobs/view/" \o d \o "?refId=7" : d \in Numbers},
     fault : Faults]

IndeedCards ==
    [data_jk : {None} \cup {"a" \o d : d \in Numbers},
     href : {None, "/pagead/clk", "/rc/clk?jk=a1&fccid=2"},
     fault : Faults]

Cards(st) == IF st = "linkedin" THEN LinkedInCards ELSE IndeedCards

\* two inner texts whose scores are both 3/20 in exact arithmetic and differ as
\* floats: 0.15 (three skills) and 0.15000000000000002 (one skill and 'lead')
PageDescriptions == {"\fJava, SQL, python\n", "Lead python"}

Concurrencies == (0 - 1)..MaxConcurrency

Results == {"job_data", "None", "Exception"}

(***************************************************************************)
(* Spec: scrape().  One call runs at a time on an instance: the caller     *)
(* awaits scrape() before it calls again (as main() does).                 *)
(***************************************************************************)
Init ==
    /\ TrieIdle
    /\ MatcherIdle
    /\ site \in {"linkedin", "indeed"}
    /\ pc = "idle"
    /\ calls = 0
    /\ concurrency = 0
    /\ seen_job_ids = {}
    /\ jobs = <<>>
    /\ job_list = <<>>
    /\ awaiting_date = <<>>
    /\ extracted = <<>>
    /\ card_idx = 0
    /\ i = 0
    /\ tasks = <<>>
    /\ clock = 0
    /\ jobs_before = <<>>
    /\ accumulated = <<>>
    /\ completion = <<>>
    /\ fetch_log = <<>>
    /\ listing = "pending"
    /\ seen_before = {}

\* scrape(max_jobs, concurrency) is called, after the call before it returned or
\* raised
StartScrape(c) ==
    /\ pc \in {"idle", "done", "raised"}
    /\ calls < MaxCalls
    /\ calls' = calls + 1
    /\ concurrency' = c
    /\ pc' = "launch"
    /\ job_list' = <<>>
    /\ awaiting_date' = <<>>
    /\ extracted' = <<>>
    /\ tasks' = <<>>
    /\ card_idx' = 0
    /\ i' = 0
    /\ jobs_before' = jobs
    /\ completion' = <<>>
    /\ listing' = "pending"
    /\ seen_before' = seen_job_ids
    /\ UNCHANGED <<trieVars, matcherVars, site, seen_job_ids, jobs, clock,
                   accumulated, fetch_log>>

\* async_playwright(), chromium.launch() and browser.new_context() return
LaunchOk ==
    /\ pc = "launch"
    /\ pc' = "navigate"
    /\ UNCHANGED <<trieVars, matcherVars, site, calls, concurrency,
                   seen_job_ids, jobs, job_list, awaiting_date,
                   extracted, card_idx, i,
                   tasks, clock, jobs_before, accumulated, completion,
                   fetch_log, listing, seen_before>>

\* one of them raises, outside the try statement: scrape() raises
LaunchRaises ==
    /\ pc = "launch"
    /\ pc' = "raised"
    /\ UNCHANGED <<trieVars, matcherVars, site, calls, concurrency,
                   seen_job_ids, jobs, job_list, awaiting_date,
                   extracted, card_idx, i,
                   tasks, clock, jobs_before, accumulated, completion,
                   fetch_log, listing, seen_before>>

\* context.new_page(), page.goto(search_url), the scrolling and
\* query_selector_all return
NavigateOk ==
    /\ pc = "navigate"
    /\ pc' = "cards"
    /\ listing' = "listed"
    /\ UNCHANGED <<trieVars, matcherVars, site, calls, concurrency,
                   seen_job_ids, jobs, job_list, awaiting_date,
                   extracted, card_idx, i,
                   tasks, clock, jobs_before, accumulated, completion,
                   fetch_log, seen_before>>

\* one of them raises: `except Exception` prints
NavigateFails ==
    /\ pc = "navigate"
    /\ pc' = "finally"
    /\ listing' = "failed"
    /\ UNCHANGED <<trieVars, matcherVars, site, calls, concurrency,
                   seen_job_ids, jobs, job_list, awaiting_date,
                   extracted, card_idx, i,
                   tasks, clock, jobs_before, accumulated, completion,
                   fetch_log, seen_before>>

\* one round of `for idx, card in enumerate(job_cards[:max_jobs], 1)`:
\* _extract_job_card runs up to its awaits on the card's date element, the id
\* registered, or returns None before them
ExtractJobCard(card) ==
    /\ pc = "cards"
    /\ clock < MaxCards
    /\ LET idx == card_idx + 1
           gate == IF site = "linkedin"
                   THEN LinkedInScraper_job_id(card, idx, seen_job_ids)
                   ELSE IndeedScraper_job_key(card, idx, seen_job_ids)
           key == IF site = "linkedin" THEN gate.job_id ELSE gate.job_key
       IN  /\ seen_job_ids' = gate.seen
           /\ card_idx' = idx
           /\ IF key = None
              THEN /\ pc' = "card"
                   /\ clock' = clock + 1
                   /\ awaiting_date' = <<>>
              ELSE /\ pc' = "date"
                   /\ clock' = clock
                   /\ awaiting_date' = <<[card |-> card, key |-> key]>>
    /\ extracted' = <<>>
    /\ UNCHANGED <<trieVars, matcherVars, site, calls, concurrency, jobs,
                   job_list, i, tasks, jobs_before, accumulated, completion,
                   fetch_log, listing, seen_before>>

\* the awaits on the date element return and the stub is built and returned, or
\* one of them raises and `except Exception` returns None
ReturnJobCard ==
    /\ pc = "date"
    /\ LET card == awaiting_date[1].card
           key == awaiting_date[1].key
       IN  extracted' = IF site = "linkedin"
                        THEN LinkedInScraper_stub(card, key, clock)
                        ELSE IndeedScraper_stub(card, key, clock)
    /\ clock' = clock + 1
    /\ awaiting_date' = <<>>
    /\ pc' = "card"
    /\ UNCHANGED <<trieVars, matcherVars, site, calls, concurrency,
                   seen_job_ids, jobs, job_list, card_idx, i, tasks,
                   jobs_before, accumulated, completion, fetch_log, listing,
                   seen_before>>

\* `if job_data and job_data.get(...): job_list.append(job_data)`
AppendCard ==
    /\ pc = "card"
    /\ job_list' = IF Enqueued(site, [job_data |-> extracted])
                   THEN job_list \o extracted
                   ELSE job_list
    /\ extracted' = <<>>
    /\ pc' = "cards"
    /\ UNCHANGED <<trieVars, matcherVars, site, calls, concurrency,
                   seen_job_ids, jobs, awaiting_date, card_idx, i, tasks, clock,
                   jobs_before, accumulated, completion, fetch_log, listing,
                   seen_before>>

\* the cards are exhausted: page.close() returns, the batch loop is entered
CardsDone ==
    /\ pc = "cards"
    /\ pc' = "loop"
    /\ tasks' = [k \in 1..Len(job_list) |-> "stub"]
    /\ UNCHANGED <<trieVars, matcherVars, site, calls, concurrency,
                   seen_job_ids, jobs, job_list, awaiting_date,
                   extracted, card_idx, i,
                   clock, jobs_before, accumulated, completion, fetch_log,
                   listing, seen_before>>

\* the cards are exhausted and page.close() raises: `except Exception` prints
ListingCloseRaises ==
    /\ pc = "cards"
    /\ pc' = "finally"
    /\ listing' = "failed"
    /\ UNCHANGED <<trieVars, matcherVars, site, calls, concurrency,
                   seen_job_ids, jobs, job_list, awaiting_date,
                   extracted, card_idx, i,
                   tasks, clock, jobs_before, accumulated, completion,
                   fetch_log, seen_before>>

\* range(0, len(job_list), 0) raises ValueError, caught by `except Exception`
RangeRaises ==
    /\ pc = "loop"
    /\ concurrency = 0
    /\ pc' = "finally"
    /\ UNCHANGED <<trieVars, matcherVars, site, calls, concurrency,
                   seen_job_ids, jobs, job_list, awaiting_date,
                   extracted, card_idx, i,
                   tasks, clock, jobs_before, accumulated, completion,
                   fetch_log, listing, seen_before>>

\* the loop body up to gather(): the batch's coroutines are created
LaunchBatch ==
    /\ pc = "loop"
    /\ concurrency > 0
    /\ i < Len(job_list)
    /\ tasks' = [k \in DOMAIN tasks |->
                    IF k \in batch(Len(job_list), i, concurrency) THEN "created"
                    ELSE tasks[k]]
    /\ completion' = <<>>
    /\ pc' = "gather"
    /\ UNCHANGED <<trieVars, matcherVars, site, calls, concurrency,
                   seen_job_ids, jobs, job_list, awaiting_date,
                   extracted, card_idx, i,
                   clock, jobs_before, accumulated, fetch_log, listing,
                   seen_before>>

\* the range is exhausted (at once when concurrency is negative)
LoopExit ==
    /\ pc = "loop"
    /\ \/ concurrency < 0
       \/ concurrency > 0 /\ i >= Len(job_list)
    /\ pc' = "finally"
    /\ UNCHANGED <<trieVars, matcherVars, site, calls, concurrency,
                   seen_job_ids, jobs, job_list, awaiting_date,
                   extracted, card_idx, i,
                   tasks, clock, jobs_before, accumulated, completion,
                   fetch_log, listing, seen_before>>

\* _fetch_job_details of stub k starts and suspends in context.new_page(); the
\* event loop starts the tasks of a gather in the order they were passed
TaskStart(k) ==
    /\ pc = "gather"
    /\ k \in DOMAIN tasks
    /\ tasks[k] = "created"
    /\ \A j \in 1..(k - 1) : tasks[j] # "created"
    /\ tasks' = [tasks EXCEPT ![k] = "new_page"]
    /\ fetch_log' = Append(fetch_log, job_list[k].job_id)
    /\ UNCHANGED <<trieVars, matcherVars, site, pc, calls, concurrency,
                   seen_job_ids, jobs, job_list, awaiting_date,
                   extracted, card_idx, i,
                   clock, jobs_before, accumulated, completion, listing,
                   seen_before>>

\* context.new_page() returns; IndeedScraper builds job_url and stores it
NewPageOk(k) ==
    /\ pc = "gather"
    /\ k \in DOMAIN tasks
    /\ tasks[k] = "new_page"
    /\ tasks' = [tasks EXCEPT ![k] = "awaiting"]
    /\ job_list' = IF site = "indeed"
                   THEN [job_list EXCEPT ![k] =
                            [application_link |->
                                "https://www.indeed.com/viewjob?jk=" \o @.job_key] @@ @]
                   ELSE job_list
    /\ UNCHANGED <<trieVars, matcherVars, site, pc, calls, concurrency,
                   seen_job_ids, jobs, awaiting_date,
                   extracted, card_idx, i, clock,
                   jobs_before, accumulated, completion, fetch_log, listing,
                   seen_before>>

\* context.new_page() raises: an except clause returns None, and `finally` has no
\* page to close
NewPageRaises(k) ==
    /\ pc = "gather"
    /\ k \in DOMAIN tasks
    /\ tasks[k] = "new_page"
    /\ tasks' = [tasks EXCEPT ![k] = "None"]
    /\ completion' = Append(completion, k)
    /\ UNCHANGED <<trieVars, matcherVars, site, pc, calls, concurrency,
                   seen_job_ids, jobs, job_list, awaiting_date,
                   extracted, card_idx, i,
                   clock, jobs_before, accumulated, fetch_log, listing,
                   seen_before>>

\* the description is found: job_data is filled in, `return job_data` enters
\* `finally`
FetchSucceeds(k, d) ==
    /\ pc = "gather"
    /\ k \in DOMAIN tasks
    /\ tasks[k] = "awaiting"
    /\ job_list' = [job_list EXCEPT ![k] = fetched(@, d)]
    /\ tasks' = [tasks EXCEPT ![k] = "return job_data"]
    /\ UNCHANGED <<trieVars, matcherVars, site, pc, calls, concurrency,
                   seen_job_ids, jobs, awaiting_date,
                   extracted, card_idx, i, clock,
                   jobs_before, accumulated, completion, fetch_log, listing,
                   seen_before>>

\* PlaywrightTimeout, no description element, or another exception: `return None`
\* enters `finally`
FetchFails(k, why) ==
    /\ pc = "gather"
    /\ k \in DOMAIN tasks
    /\ tasks[k] = "awaiting"
    /\ why \in {"timeout", "no description", "error"}
    /\ tasks' = [tasks EXCEPT ![k] = "return None"]
    /\ UNCHANGED <<trieVars, matcherVars, site, pc, calls, concurrency,
                   seen_job_ids, jobs, job_list, awaiting_date,
                   extracted, card_idx, i,
                   clock, jobs_before, accumulated, completion, fetch_log,
                   listing, seen_before>>

\* page.close() returns in `finally`: the task settles with the value returned
PageCloseOk(k) ==
    /\ pc = "gather"
    /\ k \in DOMAIN tasks
    /\ tasks[k] \in {"return job_data", "return None"}
    /\ tasks' = [tasks EXCEPT ![k] = IF @ = "return job_data" THEN "job_data" ELSE "None"]
    /\ completion' = Append(completion, k)
    /\ UNCHANGED <<trieVars, matcherVars, site, pc, calls, concurrency,
                   seen_job_ids, jobs, job_list, awaiting_date,
                   extracted, card_idx, i,
                   clock, jobs_before, accumulated, fetch_log, listing,
                   seen_before>>

\* page.close() raises in `finally`: the exception leaves the task in place of the
\* value, and gather hands it back as the task's result
PageCloseRaises(k) ==
    /\ pc = "gather"
    /\ k \in DOMAIN tasks
    /\ tasks[k] \in {"return job_data", "return None"}
    /\ tasks' = [tasks EXCEPT ![k] = "Exception"]
    /\ completion' = Append(completion, k)
    /\ UNCHANGED <<trieVars, matcherVars, site, pc, calls, concurrency,
                   seen_job_ids, jobs, job_list, awaiting_date,
                   extracted, card_idx, i,
                   clock, jobs_before, accumulated, fetch_log, listing,
                   seen_before>>

\* gather() returns once every task of the batch settled; `# Process results`
ProcessResults ==
    /\ pc = "gather"
    /\ LET b == batch(Len(job_list), i, concurrency)
           results == gather(b, completion)
           kept == successful(results, tasks)
           new == [n \in 1..Len(kept) |-> job_list[kept[n]]]
       IN  /\ \A k \in b : tasks[k] \in Results
           /\ jobs' = jobs \o new
           /\ accumulated' = accumulated \o new
    /\ pc' = "sleep"
    /\ UNCHANGED <<trieVars, matcherVars, site, calls, concurrency,
                   seen_job_ids, job_list, awaiting_date,
                   extracted, card_idx, i, tasks,
                   clock, jobs_before, completion, fetch_log, listing,
                   seen_before>>

\* `await asyncio.sleep(2)` returns; the loop variable advances
Sleep ==
    /\ pc = "sleep"
    /\ i' = i + concurrency
    /\ pc' = "loop"
    /\ UNCHANGED <<trieVars, matcherVars, site, calls, concurrency,
                   seen_job_ids, jobs, job_list, awaiting_date,
                   extracted, card_idx, tasks,
                   clock, jobs_before, accumulated, completion, fetch_log,
                   listing, seen_before>>

\* `finally: await browser.close()` returns, and the `async with` block is left
BrowserCloseOk ==
    /\ pc = "finally"
    /\ pc' = "sort"
    /\ UNCHANGED <<trieVars, matcherVars, site, calls, concurrency,
                   seen_job_ids, jobs, job_list, awaiting_date,
                   extracted, card_idx, i,
                   tasks, clock, jobs_before, accumulated, completion,
                   fetch_log, listing, seen_before>>

\* browser.close() raises: scrape() raises, nothing is sorted or returned
BrowserCloseRaises ==
    /\ pc = "finally"
    /\ pc' = "raised"
    /\ UNCHANGED <<trieVars, matcherVars, site, calls, concurrency,
                   seen_job_ids, jobs, job_list, awaiting_date,
                   extracted, card_idx, i,
                   tasks, clock, jobs_before, accumulated, completion,
                   fetch_log, listing, seen_before>>

\* self.jobs.sort(...); return self.jobs
SortAndReturn ==
    /\ pc = "sort"
    /\ jobs' = sort_reverse(jobs)
    /\ pc' = "done"
    /\ UNCHANGED <<trieVars, matcherVars, site, calls, concurrency,
                   seen_job_ids, job_list, awaiting_date,
                   extracted, card_idx, i, tasks,
                   clock, jobs_before, accumulated, completion, fetch_log,
                   listing, seen_before>>

Next ==
    \/ \E c \in Concurrencies : StartScrape(c)
    \/ LaunchOk
    \/ LaunchRaises
    \/ NavigateOk
    \/ NavigateFails
    \/ \E card \in Cards(site) : ExtractJobCard(card)
    \/ ReturnJobCard
    \/ AppendCard
    \/ CardsDone
    \/ ListingCloseRaises
    \/ RangeRaises
    \/ LaunchBatch
    \/ LoopExit
    \/ \E k \in 1..MaxCards : TaskStart(k)
    \/ \E k \in 1..MaxCards : NewPageOk(k)
    \/ \E k \in 1..MaxCards : NewPageRaises(k)
    \/ \E k \in 1..MaxCards, d \in PageDescriptions : FetchSucceeds(k, d)
    \/ \E k \in 1..MaxCards, why \in {"timeout", "no description", "error"} :
            FetchFails(k, why)
    \/ \E k \in 1..MaxCards : PageCloseOk(k)
    \/ \E k \in 1..MaxCards : PageCloseRaises(k)
    \/ ProcessResults
    \/ Sleep
    \/ BrowserCloseOk
    \/ BrowserCloseRaises
    \/ SortAndReturn

Spec == Init /\ [][Next]_vars

(***************************************************************************)
(* SpecFair: scrape() under a running event loop whose awaited operations  *)
(* each return or raise: whenever the run can take a step of its own       *)
(* (anything but the caller's next call and the listing's next card), it   *)
(* eventually takes one.                                                   *)
(***************************************************************************)
\* FetchSucceeds is left out: it is enabled in exactly the states FetchFails is,
\* and it takes the run forward as well, so the condition is the same with it.
RunStep ==
    \/ LaunchOk
    \/ LaunchRaises
    \/ NavigateOk
    \/ NavigateFails
    \/ ReturnJobCard
    \/ AppendCard
    \/ CardsDone
    \/ ListingCloseRaises
    \/ RangeRaises
    \/ LaunchBatch
    \/ LoopExit
    \/ \E k \in 1..MaxCards : TaskStart(k)
    \/ \E k \in 1..MaxCards : NewPageOk(k)
    \/ \E k \in 1..MaxCards : NewPageRaises(k)
    \/ \E k \in 1..MaxCards, why \in {"timeout", "no description", "error"} :
            FetchFails(k, why)
    \/ \E k \in 1..MaxCards : PageCloseOk(k)
    \/ \E k \in 1..MaxCards : PageCloseRaises(k)
    \/ ProcessResults
    \/ Sleep
    \/ BrowserCloseOk
    \/ BrowserCloseRaises
    \/ SortAndReturn

SpecFair == Init /\ [][Next]_vars /\ WF_vars(RunStep)

(***************************************************************************)
(* C2: when scrape has returned from a run with concurrency >= 1 that     *)
(* reached its batch loop (the listing phase went through), every stub of  *)
(* the list had its fetch run to an outcome, and the records the run added *)
(* to the output are exactly the stubs whose own fetch succeeded: a stub   *)
(* is in the output if and only if its fetch returned job_data, whatever   *)
(* happened to the other stubs of its batch or of the earlier batches.     *)
(***************************************************************************)
Succeeded == {k \in DOMAIN tasks : tasks[k] = "job_data"}

C2_BatchIsolation ==
    (pc = "done" /\ concurrency >= 1 /\ listing = "listed") =>
        /\ DOMAIN tasks = DOMAIN job_list
        /\ \A k \in DOMAIN job_list : tasks[k] \in Results
        /\ \A k \in DOMAIN job_list :
              k \in Succeeded <=> \E n \in DOMAIN jobs : jobs[n] = job_list[k]
        /\ Len(jobs) = Len(jobs_before) + Cardinality(Succeeded)

\* a batch of 3 whose 2nd item fails has yielded 2 records
C2_Witness ==
    /\ pc = "done"
    /\ concurrency = 3
    /\ tasks = <<"job_data", "None", "job_data">>
    /\ Len(jobs) = 2

(***************************************************************************)
(* C3: in every state of a run with concurrency c >= 1, at most c fetch    *)
(* tasks have started and not settled, and they all belong to one batch    *)
(* (stubs (b*c + 1)..(b*c + c) of the list for one b).                     *)
(***************************************************************************)
InFlight ==
    {k \in DOMAIN tasks :
        tasks[k] \in {"new_page", "awaiting", "return job_data", "return None"}}

C3_BoundedInFlight ==
    concurrency >= 1 =>
        /\ Cardinality(InFlight) <= concurrency
        /\ \A a, b \in InFlight :
              (a - 1) \div concurrency = (b - 1) \div concurrency

\* a full batch of 2 is in flight while a third stub waits for the next batch
C3_Witness ==
    /\ concurrency = 2
    /\ InFlight = {1, 2}
    /\ Len(tasks) = 3
    /\ tasks[3] = "stub"

(***************************************************************************)
(* C4: no two records of the list scrape returns have the same job_id.     *)
(***************************************************************************)
C4_UniqueJobIds ==
    pc = "done" =>
        \A m, n \in DOMAIN jobs : m # n => jobs[m].job_id # jobs[n].job_id

(***************************************************************************)
(* C5: no job id has its description fetched more than once: the ids of    *)
(* the fetches started so far are pairwise distinct.                       *)
(***************************************************************************)
C5_NoIdFetchedTwice ==
    \A m, n \in DOMAIN fetch_log : m # n => fetch_log[m] # fetch_log[n]

(***************************************************************************)
(* C6: the list scrape returns holds the accumulated records, each once,   *)
(* in descending order of match_score, and records of equal match_score    *)
(* in the order in which they were accumulated.                            *)
(***************************************************************************)
Rearrangements(n) ==
    {f \in [1..n -> 1..n] : \A a, b \in 1..n : a # b => f[a] # f[b]}

C6_SortedStable ==
    pc = "done" =>
        /\ Len(jobs) = Len(accumulated)
        /\ \A n \in 1..(Len(jobs) - 1) : ~ float_lt(sort_key(jobs[n]), sort_key(jobs[n + 1]))
        /\ \E f \in Rearrangements(Len(jobs)) :
              /\ \A n \in DOMAIN jobs : jobs[n] = accumulated[f[n]]
              /\ \A m, n \in DOMAIN jobs :
                    (m < n /\ sort_key(jobs[m]) = sort_key(jobs[n])) => f[m] < f[n]

\* records A, B, C accumulated with scores low, high, low are returned as B, A, C
C6_Witness ==
    /\ pc = "done"
    /\ Len(accumulated) = 3
    /\ float_lt(sort_key(accumulated[1]), sort_key(accumulated[2]))
    /\ sort_key(accumulated[1]) = sort_key(accumulated[3])
    /\ jobs = <<accumulated[2], accumulated[1], accumulated[3]>>

(***************************************************************************)
(* C7: the list scrape returns is determined by the stub list and the      *)
(* outcome of each stub's fetch alone: it is the earlier output followed   *)
(* by the successfully fetched stubs in list order, sorted; the order in   *)
(* which the tasks of a batch completed plays no part.                     *)
(***************************************************************************)
InListOrder ==
    LET ok == successful(Ascending(DOMAIN tasks), tasks)
    IN  [n \in 1..Len(ok) |-> job_list[ok[n]]]

C7_CompletionOrderIrrelevant ==
    pc = "done" => jobs = sort_reverse(jobs_before \o InListOrder)

\* two stubs of one batch with equal scores completed in the reverse of list order
C7_Witness ==
    /\ pc = "done"
    /\ Len(completion) = 2
    /\ completion[1] > completion[2]
    /\ tasks[completion[1]] = "job_data"
    /\ tasks[completion[2]] = "job_data"
    /\ job_list[completion[1]].match_score = job_list[completion[2]].match_score
    /\ jobs = jobs_before \o <<job_list[completion[2]], job_list[completion[1]]>>

(***************************************************************************)
(* C8: every record of the list scrape returns has status Fetched.         *)
(***************************************************************************)
C8_OutputFetched ==
    pc = "done" => \A n \in DOMAIN jobs : jobs[n].status = "fetched"

(***************************************************************************)
(* C11 (as amended): for a fixed text the result of calculate_match_score  *)
(* lies between 0.0 and 1.0 and is never smaller than its result for a     *)
(* shorter skill list; from a non-empty list, one more skill makes it      *)
(* grow by 1/20 to within 2^-50 (the sums are rounded binary floats) up to *)
(* 12 skills, and leaves it as it is beyond.                               *)
(***************************************************************************)
\* x + y without the rounding (x and y as their multiples of 2^-57)
exact_add(x, y) ==
    LET l == x[3] + y[3]
        m == x[2] + y[2] + l \div Limb
        h == x[1] + y[1] + m \div Limb
    IN  <<h, m % Limb, l % Limb>>

\* x and y differ by at most 2^-50
Near(x, y) ==
    /\ ~ float_lt(exact_add(y, <<0, 0, 2^7>>), x)
    /\ ~ float_lt(exact_add(x, <<0, 0, 2^7>>), y)

C11_MonotoneBounded ==
    called = {"calculate_match_score"} =>
        /\ ~ float_lt(match_score, Float_0_0)
        /\ ~ float_lt(Float_1_0, match_score)
        /\ \A fewer \in SkillLists :
              Len(fewer) <= Len(skills) =>
                  ~ float_lt(match_score, calculate_match_score(fewer, description))
        /\ \A fewer \in SkillLists :
              (Len(fewer) >= 1 /\ Len(fewer) + 1 = Len(skills)) =>
                  LET before == calculate_match_score(fewer, description)
                  IN  IF Len(skills) <= 12
                      THEN Near(match_score, exact_add(before, float_div(1, 20)))
                      ELSE match_score = before

\* C11 as stated: one more skill makes the result grow by 1/20 (the float 0.05)
C11_GrowsByOneTwentieth ==
    called = {"calculate_match_score"} =>
        /\ ~ float_lt(match_score, Float_0_0)
        /\ ~ float_lt(Float_1_0, match_score)
        /\ \A fewer \in SkillLists :
              Len(fewer) <= Len(skills) =>
                  ~ float_lt(match_score, calculate_match_score(fewer, description))
        /\ \A fewer \in SkillLists :
              (Len(fewer) >= 1 /\ Len(fewer) + 1 = Len(skills)) =>
                  LET before == calculate_match_score(fewer, description)
                  IN  IF Len(skills) <= 12
                      THEN match_score = exact_add(before, float_div(1, 20))
                      ELSE match_score = before

\* three skills against a text without keywords give 0.15, two give 0.1: the
\* growth is 0.04999999999999999, not the float 0.05
C11_Witness ==
    /\ called = {"calculate_match_score"}
    /\ Len(skills) = 3
    /\ description = ""
    /\ match_score = float_div(15, 100)
    /\ calculate_match_score(SubSeq(skills, 1, 2), description) = float_div(1, 10)
    /\ match_score # exact_add(float_div(1, 10), float_div(1, 20))

(***************************************************************************)
(* C12: the work mode is exactly one of remote, hybrid, onsite, by fixed   *)
(* priority: remote whenever 'remote' or 'work from home' occurs in the    *)
(* text (in any letter case), also when 'hybrid' occurs too; hybrid        *)
(* exactly when neither remote phrase occurs and 'hybrid' does; onsite     *)
(* exactly when none of the three occurs.                                  *)
(***************************************************************************)
Occurs(phrase, txt) ==
    \E k \in 1..(Len(txt) - Len(phrase) + 1) :
        lower(SubSeq(txt, k, k + Len(phrase) - 1)) = phrase

C12_WorkModePriority ==
    called = {"work_mode"} =>
        LET remote == Occurs("remote", description) \/ Occurs("work from home", description)
            hybrid == Occurs("hybrid", description)
        IN  /\ work_mode \in {"remote", "hybrid", "onsite"}
            /\ (remote => work_mode = "remote")
            /\ (work_mode = "hybrid" <=> (~ remote /\ hybrid))
            /\ (work_mode = "onsite" <=> (~ remote /\ ~ hybrid))

\* a text with both 'remote' and 'hybrid' is classified remote
C12_Witness ==
    /\ called = {"work_mode"}
    /\ description = "remote Hybrid"
    /\ work_mode = "remote"

(***************************************************************************)
(* C13: a scrape called with a concurrency of 0 or less is rejected before *)
(* anything else happens: such a run never gets to list the cards, to      *)
(* register an id, to enter the batch loop or to return an ordinary        *)
(* result.                                                                 *)
(***************************************************************************)
C13_NonPositiveRejected ==
    (calls > 0 /\ concurrency <= 0) =>
        pc \notin {"cards", "date", "card", "loop", "gather", "sleep", "sort", "done"}

(***************************************************************************)
(* C14: once loading or enumerating the listing page has failed, the run   *)
(* launches no fetch and does not go back to the listing, and scrape does  *)
(* not return an ordinary result: the caller is given an error, not the    *)
(* list a run that found no jobs returns.                                  *)
(***************************************************************************)
C14_ListingFailureSurfaced ==
    listing = "failed" =>
        /\ pc \notin {"navigate", "cards", "date", "card", "loop", "gather", "sleep"}
        /\ pc # "done"

(***************************************************************************)
(* C15: in a run with concurrency c >= 1 the stub list is worked through   *)
(* in consecutive batches of at most c stubs, batch b (from 0) holding the *)
(* stubs b*c + 1 .. b*c + c of the list.  After b pacing suspensions       *)
(* (i = b*c) the stubs launched are exactly those of the batches before b, *)
(* and those of batch b once it is launched; every stub of an earlier      *)
(* batch, and of batch b during its pacing suspension, has settled and,    *)
(* if it was fetched, is already in self.jobs.                             *)
(***************************************************************************)
C15_BatchesInOrder ==
    (concurrency >= 1 /\ listing = "listed"
        /\ pc \in {"loop", "gather", "sleep", "finally", "sort", "done", "raised"}) =>
        LET n == Len(job_list)
            Batch(k) == (k - 1) \div concurrency
            current == i \div concurrency
            Launched == {k \in 1..n : tasks[k] # "stub"}
            Over == {k \in 1..n :
                        \/ Batch(k) < current
                        \/ Batch(k) = current /\ pc = "sleep"}
        IN  /\ i % concurrency = 0
            /\ Launched = {k \in 1..n :
                              \/ Batch(k) < current
                              \/ Batch(k) = current /\ pc \in {"gather", "sleep"}}
            /\ \A k \in Over :
                  /\ tasks[k] \in Results
                  /\ tasks[k] = "job_data" => \E m \in DOMAIN jobs : jobs[m] = job_list[k]

\* the second batch is in flight after the first batch of 2 settled and was accumulated
C15_Witness ==
    /\ pc = "gather"
    /\ concurrency = 2
    /\ i = 2
    /\ tasks = <<"job_data", "None", "awaiting">>
    /\ Len(jobs) = 1

(***************************************************************************)
(* C16 (as amended): the walk of search_in_text from one offset goes on    *)
(* past a terminal node: it contributes the skill stored at the terminal   *)
(* node of every vocabulary term that matches at that offset at a word     *)
(* boundary, so of two terms matching at the same offset, one a prefix of  *)
(* the other, it contributes both, and all of them are returned.           *)
(***************************************************************************)
\* the lowered term occupies t from offset p on, at a word boundary
MatchesAt(term, t, p) ==
    /\ term # ""
    /\ p + Len(term) - 1 <= Len(t)
    /\ SubSeq(t, p, p + Len(term) - 1) = term
    /\ (p > 1 => ~ isalnum(Ch(t, p - 1)))
    /\ (p + Len(term) - 1 < Len(t) => ~ isalnum(Ch(t, p + Len(term))))

MatchingAt(p) == {v \in vocab : MatchesAt(lower(v), lower(text), p)}

Contribution(p) == walk(root, lower(text), p, p, "", {})

C16_WalkKeepsEveryTerminal ==
    trie_pc = "searched" =>
        LET t == lower(text)
            \* each term's lowered form with the skill stored at its terminal node
            stored == {<<lower(v), root[lower(v)].skill>> : v \in vocab}
        IN  \A p \in 1..Len(t) :
                LET contribution == walk(root, t, p, p, "", {})
                IN  /\ contribution = {q[2] : q \in {r \in stored : MatchesAt(r[1], t, p)}}
                    /\ contribution \subseteq found

\* C16 as stated: the walk from an offset contributes the one term whose terminal
\* node it reaches first
C16_FirstTerminalOnly ==
    trie_pc = "searched" =>
        \A p \in 1..Len(text) :
            MatchingAt(p) # {} =>
                LET first == CHOOSE u \in MatchingAt(p) :
                                 \A v \in MatchingAt(p) : Len(u) <= Len(v)
                IN  Contribution(p) = {root[lower(first)].skill}

\* 'a' and 'a ' both match at offset 1 of 'a ', each at a word boundary
C16_Witness ==
    /\ trie_pc = "searched"
    /\ vocab = {"a", "a "}
    /\ text = "a "
    /\ MatchingAt(1) = {"a", "a "}
    /\ found = {"a", "a "}

(***************************************************************************)
(* C17: a job id that an earlier scrape() call on the instance registered  *)
(* in seen_job_ids is never enqueued, and so never fetched, by a later     *)
(* call: no stub of the running call's job_list carries an id that was in  *)
(* seen_job_ids when the call began.                                       *)
(***************************************************************************)
C17_NoRefetchAcrossCalls ==
    \A k \in DOMAIN job_list : job_list[k].job_id \notin seen_before

(***************************************************************************)
(* C18 (as amended): under SpecFair every scrape() call with concurrency   *)
(* >= 1 comes to an end: it returns, after the final sort, or it raises    *)
(* (launching or closing the browser raised).  When the listing phase went *)
(* through, every enqueued stub has settled by then (fetched or failed),   *)
(* and a stub's task, once settled, keeps its result for the rest of the   *)
(* call, so each stub settles exactly once.                                *)
(***************************************************************************)
AllSettled == \A k \in DOMAIN job_list : k \in DOMAIN tasks /\ tasks[k] \in Results

C18_Terminates ==
    /\ (pc \notin {"idle", "done", "raised"} /\ concurrency >= 1)
           ~> (pc \in {"done", "raised"})
    /\ []((pc \in {"done", "raised"} /\ concurrency >= 1 /\ listing = "listed")
             => AllSettled)
    /\ [](pc = "done" => jobs = sort_reverse(jobs))
    /\ [][\A k \in DOMAIN tasks :
             (tasks[k] \in Results /\ pc' # "launch") =>
                 (k \in DOMAIN tasks' /\ tasks'[k] = tasks[k])]_vars

\* C18 as stated: every call with concurrency >= 1 returns, after the sort, with
\* every enqueued stub settled
C18_AlwaysReturns ==
    (pc \notin {"idle", "done", "raised"} /\ concurrency >= 1)
        ~> (pc = "done" /\ AllSettled)

\* a call over three stubs in two batches has returned with every stub settled
C18_Witness ==
    /\ pc = "done"
    /\ concurrency = 2
    /\ Len(job_list) = 3
    /\ AllSettled
    /\ i = 4

(***************************************************************************)
(* C19: for a non-empty skill list the cloud bonus in the result of        *)
(* calculate_match_score is exactly 0.15 when at least one of the six      *)
(* cloud keywords occurs in the text (in any letter case, as a substring)  *)
(* and 0 otherwise, and the data-engineering bonus is exactly 0.15 when at *)
(* least one of its five keywords occurs and 0 otherwise: the result is    *)
(* the base score plus these two bonuses plus the seniority bonus (float   *)
(* sums, in this order), and is                                            *)
(* the same as for a text that hits one keyword only of each group the     *)
(* text hits, however many keywords of a group the text hits.              *)
(***************************************************************************)
\* the positions of txt, lower-cased, where the phrase starts
StartsOf(phrase, low) ==
    {k \in 1..(Len(low) - Len(phrase) + 1) : SubSeq(low, k, k + Len(phrase) - 1) = phrase}

Hit(keywords, txt) == LET low == lower(txt) IN \E kw \in keywords : StartsOf(kw, low) # {}

Hits(keywords, txt) ==
    LET low == lower(txt) IN Cardinality({kw \in keywords : StartsOf(kw, low) # {}})

C19_BonusAllOrNothing ==
    (called = {"calculate_match_score"} /\ skills # <<>>) =>
        LET cloud == Hit(cloud_keywords, description)
            senior == Hit(senior_keywords, description)
            de == Hit(de_keywords, description)
            base == float_min(float_div(Len(skills), 20), Float_0_6)
            with_cloud == float_add(base, IF cloud THEN Float_0_15 ELSE Float_0_0)
            with_senior == float_add(with_cloud, IF senior THEN Float_0_10 ELSE Float_0_0)
            with_de == float_add(with_senior, IF de THEN Float_0_15 ELSE Float_0_0)
            one_of_each == (IF cloud THEN "cloud " ELSE "")
                           \o (IF senior THEN "lead " ELSE "")
                           \o (IF de THEN "etl" ELSE "")
        IN  /\ match_score = float_min(with_de, Float_1_0)
            /\ calculate_match_score(skills, one_of_each) = match_score

\* two skills and a text that hits two cloud keywords ('aws' and 's3') and no
\* other group: 0.1 + 0.15
C19_Witness ==
    /\ called = {"calculate_match_score"}
    /\ Len(skills) = 2
    /\ description = "AWS s3"
    /\ Hits(cloud_keywords, description) = 2
    /\ match_score = float_add(float_div(2, 20), Float_0_15)

=============================================================================
